---- MODULE Spec2Model ----
(***************************************************************************)
(* Model of datasets/usd_cash_counting/scripts/download_roboflow.py:       *)
(* the dataset registry, the label tables, download_dataset() and main().  *)
(* The label lookup of the merge stage (merge_datasets.py, named at line   *)
(* 117 but not part of the sources) is modelled from spec.md section 4.2.  *)
(***************************************************************************)
EXTENDS Integers, Sequences, FiniteSets, TLC

VARIABLES
    DATASETS,               \* module global, lines 16-50 (ordered dict)
    CLASS_MAPPING,          \* module global, lines 53-67
    SKIP_CLASSES,           \* module global, line 70
    entry,                  \* "main" (script run) or "download_dataset" (direct call)
    argv,                   \* command line: [api_key, given, datasets, output]
    pc,                     \* position in main() / in the direct call / in the merge stage
    args,                   \* argparse namespace after parse_args()
    output_dir,             \* line 100
    fs,                     \* directories that exist on disk
    datasets_to_download,   \* line 103
    idx,                    \* position of the for loop of line 110
    stdout,                 \* lines printed so far
    attempts,               \* history: every call of download_dataset, the remote
                            \* calls it made and how it ended
    raw_label,              \* merge stage: label under resolution
    outcome                 \* merge stage: result of normalize(raw_label)

vars == <<DATASETS, CLASS_MAPPING, SKIP_CLASSES, entry, argv, pc, args,
          output_dir, fs, datasets_to_download, idx, stdout, attempts,
          raw_label, outcome>>

config == <<DATASETS, CLASS_MAPPING, SKIP_CLASSES>>

-----------------------------------------------------------------------------
(* Bounds *)

MaxReq == 3         \* longest --datasets value list enumerated

-----------------------------------------------------------------------------
(* Static configuration, as written in the source *)

\* A Python dict keeps insertion order: order is list(d.keys()), items is d[k].
DATASETS_literal ==
    [ order |-> << "usd_bills", "dollar_bills_v20", "front_back_usd_obb",
                   "coin_counter", "us_currency_coins" >>,
      items |->
        ( "usd_bills" :>
            [ workspace |-> "objectdetection-nhb0l", project |-> "usd-money",
              version |-> 2, description |-> "USD Bills dataset",
              format |-> "yolov8" ] ) @@
        ( "dollar_bills_v20" :>
            [ workspace |-> "alex-hyams-cosqx", project |-> "dollar-bill-detection",
              version |-> 20, description |-> "Dollar Bill Detection v20",
              format |-> "yolov8" ] ) @@
        ( "front_back_usd_obb" :>
            [ workspace |-> "sg-knxss", project |-> "front-back-of-usd",
              version |-> 1, description |-> "Front/Back USD OBB v1",
              format |-> "yolov8-obb" ] ) @@
        ( "coin_counter" :>
            [ workspace |-> "adrian-fvgo3", project |-> "coin-counter-practice-5xh0x",
              version |-> 1, description |-> "Coin Counter Practice" ] ) @@
        ( "us_currency_coins" :>
            [ workspace |-> "most-current-coin-counter-6292022",
              project |-> "us-currency-coins-o2oet",
              version |-> 1, description |-> "US Currency Coins" ] ) ]

\* Variant: only the lower-case spelling of the quarter is enumerated.
CLASS_MAPPING_no_capital_quarter ==
    [ l \in {"penny", "Penny", "1cent", "1_cent", "one_cent"} |-> 0 ] @@
    [ l \in {"nickel", "Nickel", "5cent", "5_cent", "five_cent"} |-> 1 ] @@
    [ l \in {"dime", "Dime", "10cent", "10_cent", "ten_cent"} |-> 2 ] @@
    [ l \in {"quarter", "25cent", "25_cent", "twenty_five_cent"} |-> 3 ] @@
    [ l \in {"1", "$1", "one", "1_dollar", "dollar_bill", "one_dollar"} |-> 4 ] @@
    [ l \in {"5", "$5", "five", "5_dollar", "five_dollars", "five_dollar"} |-> 5 ] @@
    [ l \in {"10", "$10", "ten", "10_dollar", "ten_dollars", "ten_dollar"} |-> 6 ] @@
    [ l \in {"20", "$20", "twenty", "20_dollar", "twenty_dollars", "twenty_dollar"} |-> 7 ] @@
    [ l \in {"50", "$50", "fifty", "50_dollar", "fifty_dollars", "fifty_dollar"} |-> 8 ] @@
    [ l \in {"100", "$100", "hundred", "100_dollar", "hundred_dollars", "hundred_dollar"} |-> 9 ]

\* Variant: the $100 row copied from the $50 row with its id left at 8.
CLASS_MAPPING_orphan_hundred ==
    [ l \in {"penny", "Penny", "1cent", "1_cent", "one_cent"} |-> 0 ] @@
    [ l \in {"nickel", "Nickel", "5cent", "5_cent", "five_cent"} |-> 1 ] @@
    [ l \in {"dime", "Dime", "10cent", "10_cent", "ten_cent"} |-> 2 ] @@
    [ l \in {"quarter", "Quarter", "25cent", "25_cent", "twenty_five_cent"} |-> 3 ] @@
    [ l \in {"1", "$1", "one", "1_dollar", "dollar_bill", "one_dollar"} |-> 4 ] @@
    [ l \in {"5", "$5", "five", "5_dollar", "five_dollars", "five_dollar"} |-> 5 ] @@
    [ l \in {"10", "$10", "ten", "10_dollar", "ten_dollars", "ten_dollar"} |-> 6 ] @@
    [ l \in {"20", "$20", "twenty", "20_dollar", "twenty_dollars", "twenty_dollar"} |-> 7 ] @@
    [ l \in {"50", "$50", "fifty", "50_dollar", "fifty_dollars", "fifty_dollar"} |-> 8 ] @@
    [ l \in {"100", "$100", "hundred", "100_dollar", "hundred_dollars", "hundred_dollar"} |-> 8 ]

CLASS_MAPPING_literal ==
    [ l \in {"penny", "Penny", "1cent", "1_cent", "one_cent"} |-> 0 ] @@
    [ l \in {"nickel", "Nickel", "5cent", "5_cent", "five_cent"} |-> 1 ] @@
    [ l \in {"dime", "Dime", "10cent", "10_cent", "ten_cent"} |-> 2 ] @@
    [ l \in {"quarter", "Quarter", "25cent", "25_cent", "twenty_five_cent"} |-> 3 ] @@
    [ l \in {"1", "$1", "one", "1_dollar", "dollar_bill", "one_dollar"} |-> 4 ] @@
    [ l \in {"5", "$5", "five", "5_dollar", "five_dollars", "five_dollar"} |-> 5 ] @@
    [ l \in {"10", "$10", "ten", "10_dollar", "ten_dollars", "ten_dollar"} |-> 6 ] @@
    [ l \in {"20", "$20", "twenty", "20_dollar", "twenty_dollars", "twenty_dollar"} |-> 7 ] @@
    [ l \in {"50", "$50", "fifty", "50_dollar", "fifty_dollars", "fifty_dollar"} |-> 8 ] @@
    [ l \in {"100", "$100", "hundred", "100_dollar", "hundred_dollars", "hundred_dollar"} |-> 9 ]

\* Variant: a currency label listed among the distractors as well.
SKIP_CLASSES_with_dime == {"nut", "screw", "nail", "washer", "bolt", "dime"}

SKIP_CLASSES_literal == {"nut", "screw", "nail", "washer", "bolt"}

-----------------------------------------------------------------------------
(* Python helpers *)

\* list(d.keys())
keys(d) == d.order

\* k in d
contains(d, k) == k \in DOMAIN d.items

\* d.get(k, default) on a plain mapping
get(d, k, default) == IF k \in DOMAIN d THEN d[k] ELSE default

\* x in list
InSeq(x, s) == \E i \in 1..Len(s) : s[i] = x

\* The exception classes that occur here; all derive from Exception.
ExceptionSubclasses == {"KeyError", "RuntimeError", "ConnectionError"}

\* pathlib: a path is the sequence of its components, "/" first when absolute.
cwd == << "/", "usd_cash_counting", "scripts" >>

RECURSIVE collapse(_, _)
\* resolve() removes ".." components against what precedes them
collapse(done, rest) ==
    IF rest = << >> THEN done
    ELSE IF Head(rest) = ".."
         THEN collapse(IF Len(done) > 1 THEN SubSeq(done, 1, Len(done) - 1) ELSE done,
                       Tail(rest))
         ELSE collapse(Append(done, Head(rest)), Tail(rest))

\* Path.resolve()
resolve(p) == IF p # << >> /\ p[1] = "/" THEN collapse(<< "/" >>, Tail(p))
              ELSE collapse(cwd, p)

\* output_dir / dataset_name   (dataset_name is a single relative component)
joinpath(p, name) == Append(p, name)

\* the directory and all its ancestors (mkdir(parents=True, exist_ok=True))
withParents(p) == { SubSeq(p, 1, n) : n \in 1..Len(p) }

-----------------------------------------------------------------------------
(* The remote service (roboflow package): an external collaborator *)

\* The chain of calls of lines 80-85, in program order.
RemoteOps == << "Roboflow", "workspace", "project", "version", "download" >>

\* What the service may do to one download_dataset call: answer every call,
\* raise at the first one (credentials refused), or raise at the last one
\* (network error during the transfer).
Faults == {"none", "Roboflow", "download"}

\* The exception a failing remote call raises.
FaultException(fault) == IF fault = "download" THEN "ConnectionError" ELSE "RuntimeError"

\* Index in RemoteOps of the call that raises, 0 when none does.
FaultIndex(fault) ==
    IF fault = "none" THEN 0
    ELSE CHOOSE i \in 1..Len(RemoteOps) : RemoteOps[i] = fault

\* One record per call made to the service.
RemoteCall(op, arg, location) == [ op |-> op, arg |-> arg, location |-> location ]

\* One record per call of download_dataset.
Attempt(dataset_name, r) == [ dataset_name |-> dataset_name, exc |-> r.exc, calls |-> r.calls ]

\* One record per line printed.
Line(kind, name, path, exc) == [ kind |-> kind, name |-> name, path |-> path, exc |-> exc ]

-----------------------------------------------------------------------------
(* download_dataset, lines 73-88 *)

\* Variant: every dataset downloaded straight into output_dir (location=str(output_dir)).
download_dataset_flat(ds, api_key, dataset_name, out_dir, fault) ==
    IF ~contains(ds, dataset_name)
    THEN [ exc |-> "KeyError", calls |-> << >>, out |-> << >>, made |-> {}, ds |-> ds ]
    ELSE
      LET cfg      == ds.items[dataset_name]
          location == out_dir
          chain    == << RemoteCall("Roboflow", api_key, << >>),
                         RemoteCall("workspace", cfg.workspace, << >>),
                         RemoteCall("project", cfg.project, << >>),
                         RemoteCall("version", cfg.version, << >>),
                         RemoteCall("download", get(cfg, "format", "yolov8"), location) >>
          started  == << Line("downloading", dataset_name, << >>, "") >>
          n        == FaultIndex(fault)
      IN  IF n = 0
          THEN [ exc |-> "none", calls |-> chain,
                 out |-> Append(started, Line("downloaded", dataset_name, location, "")),
                 made |-> withParents(location), ds |-> ds ]
          ELSE [ exc |-> FaultException(fault), calls |-> SubSeq(chain, 1, n),
                 out |-> started, made |-> {}, ds |-> ds ]

\* Variant: config.setdefault("format", "yolov8") in place of config.get(...):
\* the default is written into the registry entry.
download_dataset_setdefault(ds, api_key, dataset_name, out_dir, fault) ==
    IF ~contains(ds, dataset_name)
    THEN [ exc |-> "KeyError", calls |-> << >>, out |-> << >>, made |-> {}, ds |-> ds ]
    ELSE
      LET cfg      == ds.items[dataset_name]
          location == joinpath(out_dir, dataset_name)
          fmt      == get(cfg, "format", "yolov8")
          chain    == << RemoteCall("Roboflow", api_key, << >>),
                         RemoteCall("workspace", cfg.workspace, << >>),
                         RemoteCall("project", cfg.project, << >>),
                         RemoteCall("version", cfg.version, << >>),
                         RemoteCall("download", fmt, location) >>
          started  == << Line("downloading", dataset_name, << >>, "") >>
          n        == FaultIndex(fault)
          after    == IF n = 0 \/ n = 5
                      THEN [ ds EXCEPT !.items[dataset_name] =
                                 [ workspace |-> cfg.workspace, project |-> cfg.project,
                                   version |-> cfg.version,
                                   description |-> cfg.description, format |-> fmt ] ]
                      ELSE ds
      IN  IF n = 0
          THEN [ exc |-> "none", calls |-> chain,
                 out |-> Append(started, Line("downloaded", dataset_name, location, "")),
                 made |-> withParents(location), ds |-> after ]
          ELSE [ exc |-> FaultException(fault), calls |-> SubSeq(chain, 1, n),
                 out |-> started, made |-> {}, ds |-> after ]

\* Result of one call: the exception raised ("none" on return), the remote calls
\* made, the lines printed, the directories materialized, and the registry as the
\* call leaves it.  The roboflow package is installed (docstring, line 8), so the
\* import of line 75 succeeds.
download_dataset(ds, api_key, dataset_name, out_dir, fault) ==
    IF ~contains(ds, dataset_name)
    THEN [ exc |-> "KeyError", calls |-> << >>, out |-> << >>, made |-> {},
           ds |-> ds ]                                                 \* line 77
    ELSE
      LET cfg      == ds.items[dataset_name]
          location == joinpath(out_dir, dataset_name)
          chain    == << RemoteCall("Roboflow", api_key, << >>),
                         RemoteCall("workspace", cfg.workspace, << >>),
                         RemoteCall("project", cfg.project, << >>),
                         RemoteCall("version", cfg.version, << >>),
                         RemoteCall("download", get(cfg, "format", "yolov8"), location) >>
          started  == << Line("downloading", dataset_name, << >>, "") >>   \* line 78
          n        == FaultIndex(fault)
      IN  IF n = 0
          THEN [ exc   |-> "none",
                 calls |-> chain,
                 out   |-> Append(started, Line("downloaded", dataset_name, location, "")),
                 made  |-> withParents(location),
                 ds    |-> ds ]
          ELSE [ exc   |-> FaultException(fault),
                 calls |-> SubSeq(chain, 1, n),
                 out   |-> started,
                 made  |-> {},
                 ds    |-> ds ]

-----------------------------------------------------------------------------
(* main, lines 91-117 *)

\* choices=list(DATASETS.keys()) + ["all"], line 94
choices(ds) == keys(ds) \o << "all" >>

\* default=Path("../raw_downloads"), line 96
default_output == << "..", "raw_downloads" >>

\* Variant: --datasets declared without choices=...; any word is accepted.
usage_error_no_choices(ds, av) ==
    \/ av.api_key = "none"
    \/ av.given /\ av.datasets = << >>

\* parse_args() rejects the command line (usage error, exit status 2)
usage_error(ds, av) ==
    \/ av.api_key = "none"                                          \* required=True
    \/ av.given /\ av.datasets = << >>                              \* nargs="+"
    \/ \E i \in 1..Len(av.datasets) : ~InSeq(av.datasets[i], choices(ds))

\* line 98
main_parse_args ==
    /\ pc = "parse_args"
    /\ IF usage_error(DATASETS, argv)
       THEN /\ pc' = "exit2"
            /\ UNCHANGED args
       ELSE /\ pc' = "mkdir"
            /\ args' = [ api_key  |-> argv.api_key,
                         datasets |-> IF argv.given THEN argv.datasets ELSE << "all" >>,
                         output   |-> IF argv.output = << >> THEN default_output
                                      ELSE argv.output ]
    /\ UNCHANGED << config, entry, argv, output_dir, fs,
                    datasets_to_download, idx, stdout, attempts,
                    raw_label, outcome >>

\* lines 100-101
main_mkdir ==
    /\ pc = "mkdir"
    /\ output_dir' = resolve(args.output)
    /\ fs' = fs \cup withParents(resolve(args.output))
    /\ pc' = "select"
    /\ UNCHANGED << config, entry, argv, args,
                    datasets_to_download, idx, stdout, attempts,
                    raw_label, outcome >>

\* Variant: the registry filtered by the request, [k for k in DATASETS if k in requested].
select_registry_order(ds, requested) ==
    IF InSeq("all", requested) THEN keys(ds)
    ELSE SelectSeq(keys(ds), LAMBDA k : InSeq(k, requested))

\* Variant: `args.datasets == ["all"]` in place of `"all" in args.datasets`.
select_exact(ds, requested) == IF requested = << "all" >> THEN keys(ds) ELSE requested

\* line 103
select(ds, requested) == IF InSeq("all", requested) THEN keys(ds) ELSE requested

\* lines 103-108
main_select ==
    /\ pc = "select"
    /\ datasets_to_download' = select(DATASETS, args.datasets)
    /\ stdout' = stdout \o << Line("title", "", << >>, ""),
                              Line("rule", "", << >>, ""),
                              Line("output_dir", "", output_dir, ""),
                              Line("to_download", "", select(DATASETS, args.datasets), "") >>
    /\ idx' = 1
    /\ pc' = "loop"
    /\ UNCHANGED << config, entry, argv, args, output_dir, fs,
                    attempts, raw_label, outcome >>

\* Variant: `except ConnectionError`, a handler for network errors only.
except_ConnectionError(exc) == exc = "ConnectionError"

\* Variant: no handler around the call.
except_nothing(exc) == FALSE

\* `except Exception`, line 113: the classes the handler catches
except_Exception(exc) == exc \in ExceptionSubclasses

\* one iteration of the for loop, lines 110-114
main_loop(fault) ==
    /\ pc = "loop"
    /\ idx <= Len(datasets_to_download)
    /\ LET dataset_name == datasets_to_download[idx]
           r == download_dataset(DATASETS, args.api_key, dataset_name, output_dir, fault)
       IN  /\ attempts' = Append(attempts, Attempt(dataset_name, r))
           /\ DATASETS' = r.ds
           /\ fs' = fs \cup r.made
           /\ IF r.exc = "none"
              THEN /\ stdout' = stdout \o r.out
                   /\ idx' = idx + 1
                   /\ pc' = "loop"
              ELSE IF except_Exception(r.exc)
              THEN /\ stdout' = stdout \o r.out \o
                                << Line("failed", dataset_name, << >>, r.exc) >>
                   /\ idx' = idx + 1
                   /\ pc' = "loop"
              ELSE /\ stdout' = stdout \o r.out
                   /\ idx' = idx
                   /\ pc' = "raised"
    /\ UNCHANGED << CLASS_MAPPING, SKIP_CLASSES, entry, argv, args, output_dir,
                    datasets_to_download, raw_label, outcome >>

\* lines 116-117
main_complete ==
    /\ pc = "loop"
    /\ idx > Len(datasets_to_download)
    /\ stdout' = stdout \o << Line("complete", "", << >>, ""), Line("next", "", << >>, "") >>
    /\ pc' = "done"
    /\ UNCHANGED << config, entry, argv, args, output_dir, fs,
                    datasets_to_download, idx, attempts, raw_label, outcome >>

\* download_dataset called on its own (the module imported by other code):
\* no handler around it, an exception reaches the caller.
call_download_dataset(fault) ==
    /\ pc = "call"
    /\ LET dataset_name == argv.datasets[1]
           r == download_dataset(DATASETS, argv.api_key, dataset_name, output_dir, fault)
       IN  /\ attempts' = Append(attempts, Attempt(dataset_name, r))
           /\ DATASETS' = r.ds
           /\ fs' = fs \cup r.made
           /\ stdout' = stdout \o r.out
           /\ pc' = IF r.exc = "none" THEN "returned" ELSE "raised"
    /\ UNCHANGED << CLASS_MAPPING, SKIP_CLASSES, entry, argv, args, output_dir,
                    datasets_to_download, idx, raw_label, outcome >>

-----------------------------------------------------------------------------
(* Inputs *)

\* what can be written after --datasets: registry ids, "all", an unknown id
Tokens == { DATASETS_literal.order[i] : i \in 1..Len(DATASETS_literal.order) }
          \cup {"all", "bogus"}

RECURSIVE SeqsUpTo(_, _)
SeqsUpTo(S, n) ==
    IF n = 0 THEN { << >> }
    ELSE LET shorter == SeqsUpTo(S, n - 1)
         IN  shorter \cup { Append(s, x) : s \in { t \in shorter : Len(t) = n - 1 }, x \in S }

\* --output values: omitted (<< >>), or an absolute directory
Outputs == { << >>, << "/", "data", "raw" >> }

Init ==
    /\ DATASETS = DATASETS_literal
    /\ CLASS_MAPPING = CLASS_MAPPING_literal
    /\ SKIP_CLASSES = SKIP_CLASSES_literal
    /\ entry \in {"main", "download_dataset"}
    /\ IF entry = "main"
       THEN /\ pc = "parse_args"
            /\ \E k \in {"none", "KEY"}, g \in BOOLEAN, o \in Outputs,
                  d \in SeqsUpTo(Tokens, MaxReq) :
                 /\ ~g => d = << >>
                 /\ argv = [ api_key |-> k, given |-> g, datasets |-> d, output |-> o ]
            /\ output_dir = << >>
       ELSE /\ pc = "call"
            /\ \E t \in Tokens, o \in Outputs :
                 /\ argv = [ api_key |-> "KEY", given |-> TRUE, datasets |-> << t >>,
                             output |-> o ]
                 /\ output_dir = resolve(IF o = << >> THEN default_output ELSE o)
    /\ args = [ api_key |-> "", datasets |-> << >>, output |-> << >> ]
    /\ fs = withParents(cwd)
    /\ datasets_to_download = << >>
    /\ idx = 0
    /\ stdout = << >>
    /\ attempts = << >>
    /\ raw_label = ""
    /\ outcome = [ tag |-> "pending", id |-> -1, label |-> "" ]

-----------------------------------------------------------------------------
(* Merge stage: label resolution over the two tables *)

MappedId(n) == [ tag |-> "MappedId", id |-> n, label |-> "" ]
Discarded == [ tag |-> "Discarded", id |-> -1, label |-> "" ]
Unknown(l) == [ tag |-> "Unknown", id |-> -1, label |-> l ]

\* exact-string lookup, skip-set first, then the mapping table
normalize(mapping, skip, l) ==
    IF l \in skip THEN Discarded
    ELSE IF l \in DOMAIN mapping THEN MappedId(mapping[l])
    ELSE Unknown(l)

\* the same lookup with the mapping table consulted first
normalize_mapping_first(mapping, skip, l) ==
    IF l \in DOMAIN mapping THEN MappedId(mapping[l])
    ELSE IF l \in skip THEN Discarded
    ELSE Unknown(l)

\* labels found in annotation files that no table enumerates
Unenumerated == { "dime_old", "QUARTER", "Nut", "", "0", "2", "$2", "PENNY", "penny ",
                  "half_dollar", "bolts", "1 dollar", "quarters", "Hundred" }

\* the labels of the specification's scenario (spec.md section 8)
ScenarioLabels == { "quarter", "Quarter", "nut", "dime_old" }

RawLabels == DOMAIN CLASS_MAPPING_literal \cup SKIP_CLASSES_literal \cup Unenumerated
             \cup ScenarioLabels

merge_normalize ==
    /\ pc = "normalize"
    /\ outcome' = normalize(CLASS_MAPPING, SKIP_CLASSES, raw_label)
    /\ pc' = "normalized"
    /\ UNCHANGED << config, entry, argv, args, output_dir, fs, datasets_to_download,
                    idx, stdout, attempts, raw_label >>

InitMerge ==
    /\ DATASETS = DATASETS_literal
    /\ CLASS_MAPPING = CLASS_MAPPING_literal
    /\ SKIP_CLASSES = SKIP_CLASSES_literal
    /\ entry = "merge"
    /\ pc = "normalize"
    /\ raw_label \in RawLabels
    /\ outcome = [ tag |-> "pending", id |-> -1, label |-> "" ]
    /\ argv = [ api_key |-> "none", given |-> FALSE, datasets |-> << >>, output |-> << >> ]
    /\ args = [ api_key |-> "", datasets |-> << >>, output |-> << >> ]
    /\ output_dir = << >>
    /\ fs = withParents(cwd)
    /\ datasets_to_download = << >>
    /\ idx = 0
    /\ stdout = << >>
    /\ attempts = << >>

NextMerge == merge_normalize

SpecMerge == InitMerge /\ [][NextMerge]_vars

Next ==
    \/ main_parse_args
    \/ main_mkdir
    \/ main_select
    \/ \E fault \in Faults : main_loop(fault)
    \/ main_complete
    \/ \E fault \in Faults : call_download_dataset(fault)

Spec == Init /\ [][Next]_vars

\* The interpreter runs the next statement; every remote call returns or raises.
FairSpec == Spec /\ WF_vars(Next)

-----------------------------------------------------------------------------
(* Vocabulary of the properties *)

Range(f) == { f[x] : x \in DOMAIN f }

ToSet(s) == { s[i] : i \in 1..Len(s) }

RegistryIds == ToSet(keys(DATASETS))

\* the dataset names of the calls of download_dataset, in call order
AttemptNames == [ k \in 1..Len(attempts) |-> attempts[k].dataset_name ]

IsOutcomeLine(l) == l.kind \in {"downloaded", "failed"}

\* the per-dataset reports printed so far, in print order
Outcomes == SelectSeq(stdout, IsOutcomeLine)

\* the request as parse_args() accepted it contains the selector "all"
RequestsAll == InSeq("all", args.datasets)

\* the command line names something that is neither a registry id nor "all"
NamesUnknownId == \E i \in 1..Len(argv.datasets) : argv.datasets[i] \notin RegistryIds \cup {"all"}

\* the command line is one parse_args() accepts: a key, and after --datasets one
\* or more words, each a registry id or "all"
ValidCommandLine ==
    /\ argv.api_key # "none"
    /\ argv.given => argv.datasets # << >>
    /\ ~NamesUnknownId

-----------------------------------------------------------------------------
(* C1 *)

\* C1: the loop of main() calls download_dataset once per entry of the list to
\* download and prints one report per call; the report is "failed" exactly when
\* that call raised and "downloaded" otherwise; no exception leaves the loop, so
\* a failing dataset neither stops the later calls nor alters their reports; at
\* the end there are as many calls and reports as requested ids.
C1_OrchestratorIsolation ==
    entry = "main" =>
      /\ pc # "raised"
      /\ Len(Outcomes) = Len(attempts)
      /\ \A k \in 1..Len(attempts) :
           /\ attempts[k].dataset_name = datasets_to_download[k]
           /\ Outcomes[k].name = attempts[k].dataset_name
           /\ (Outcomes[k].kind = "failed") <=> (attempts[k].exc # "none")
           /\ (Outcomes[k].kind = "downloaded") <=> (attempts[k].exc = "none")
      /\ pc = "loop" => Len(attempts) = idx - 1
      /\ pc = "done" => Len(attempts) = Len(datasets_to_download)
      /\ (pc = "done" /\ ~RequestsAll) => Len(attempts) = Len(argv.datasets)

\* a finished run of three requested datasets: the first and third failed, the
\* second succeeded
C1_Witness ==
    /\ entry = "main" /\ pc = "done" /\ ~RequestsAll
    /\ Len(attempts) = 3
    /\ attempts[1].exc = "RuntimeError"
    /\ attempts[2].exc = "none"
    /\ attempts[3].exc = "ConnectionError"
    /\ Outcomes[2].kind = "downloaded"

-----------------------------------------------------------------------------
(* C2 *)

\* C2 as stated: whenever a precedes b in DATASETS and both are requested, every
\* call for a comes before every call for b, whatever the order of the request.
C2_RegistryOrder ==
    (entry = "main" /\ pc = "done") =>
      \A i, j \in 1..Len(keys(DATASETS)) :
        (i < j /\ InSeq(keys(DATASETS)[i], args.datasets)
               /\ InSeq(keys(DATASETS)[j], args.datasets)) =>
          \A m, n \in 1..Len(attempts) :
            (attempts[m].dataset_name = keys(DATASETS)[i]
               /\ attempts[n].dataset_name = keys(DATASETS)[j]) => m < n

\* C2 amended: when the request does not contain "all", the calls follow the
\* request as written, word for word (repeats included): at every moment the
\* datasets fetched so far are the first words of the request, and at the end
\* they are the whole request.
C2_RequestOrder ==
    (entry = "main" /\ pc \in {"loop", "done"} /\ ~RequestsAll) =>
      /\ Len(attempts) <= Len(argv.datasets)
      /\ AttemptNames = SubSeq(argv.datasets, 1, Len(attempts))
      /\ pc = "done" => AttemptNames = argv.datasets

\* a finished run whose request names two datasets against the registry order
C2_Witness ==
    /\ entry = "main" /\ pc = "done"
    /\ argv.datasets = << "coin_counter", "usd_bills" >>
    /\ AttemptNames = << "coin_counter", "usd_bills" >>

-----------------------------------------------------------------------------
(* C3 *)

\* C3: from every accepted command line main() reaches its completion step,
\* whatever the remote calls do, and never ends with an exception.
C3_BestEffortExit ==
    /\ (entry = "main" /\ pc = "parse_args" /\ ValidCommandLine) ~> (pc = "done")
    /\ [](entry = "main" => pc # "raised")

\* a completed run in which every one of at least two requested datasets failed
C3_Witness ==
    /\ entry = "main" /\ pc = "done"
    /\ Len(attempts) >= 2
    /\ \A k \in 1..Len(attempts) : attempts[k].exc # "none"
    /\ stdout[Len(stdout) - 1].kind = "complete"

-----------------------------------------------------------------------------
(* C4 *)

\* C4: a command line naming an unknown id is rejected by parse_args(): the run
\* never leaves the parsing step, calls download_dataset for no dataset and
\* creates no directory; and download_dataset called with an id that is not in
\* DATASETS raises KeyError having made no call to the remote service.
C4_UnknownIdAbortsBeforeWork ==
    /\ (entry = "main" /\ NamesUnknownId) =>
         /\ pc \in {"parse_args", "exit2"}
         /\ attempts = << >>
         /\ fs = withParents(cwd)
         /\ stdout = << >>
    /\ (entry = "download_dataset" /\ argv.datasets[1] \notin RegistryIds /\ pc # "call") =>
         /\ pc = "raised"
         /\ Len(attempts) = 1
         /\ attempts[1].exc = "KeyError"
         /\ attempts[1].calls = << >>
         /\ fs = withParents(cwd)

\* a rejected command line that names a valid id next to the unknown one
C4_Witness ==
    /\ entry = "main" /\ pc = "exit2"
    /\ argv.api_key = "KEY"
    /\ argv.datasets = << "usd_bills", "bogus" >>

-----------------------------------------------------------------------------
(* C5 *)

\* C5: no label of SKIP_CLASSES is a key of CLASS_MAPPING; a resolved skip label
\* is Discarded; and the result of every resolution is the one the lookup gives
\* when it consults the mapping first.
C5_SkipSetDisjoint ==
    /\ SKIP_CLASSES \cap DOMAIN CLASS_MAPPING = {}
    /\ \A l \in SKIP_CLASSES :
         /\ normalize(CLASS_MAPPING, SKIP_CLASSES, l) = Discarded
         /\ normalize_mapping_first(CLASS_MAPPING, SKIP_CLASSES, l) = Discarded
    /\ pc = "normalized" =>
         /\ outcome = normalize_mapping_first(CLASS_MAPPING, SKIP_CLASSES, raw_label)
         /\ raw_label \in SKIP_CLASSES => outcome = Discarded

\* a skip label has been resolved
C5_Witness ==
    /\ pc = "normalized"
    /\ raw_label = "washer"
    /\ outcome = Discarded

-----------------------------------------------------------------------------
(* C6 *)

\* C6: a resolved label that neither table enumerates is Unknown and carries the
\* label; it is never a unified id and never Discarded; "quarter" and "Quarter"
\* resolve to id 3, "nut" to Discarded, "dime_old" to Unknown.
C6_ExactLookupNoDefault ==
    /\ "quarter" \in DOMAIN CLASS_MAPPING /\ CLASS_MAPPING["quarter"] = 3
    /\ "Quarter" \in DOMAIN CLASS_MAPPING /\ CLASS_MAPPING["Quarter"] = 3
    /\ "nut" \in SKIP_CLASSES
    /\ "dime_old" \notin DOMAIN CLASS_MAPPING \cup SKIP_CLASSES
    /\ pc = "normalized" =>
         /\ raw_label \notin DOMAIN CLASS_MAPPING \cup SKIP_CLASSES =>
              /\ outcome.tag = "Unknown"
              /\ outcome.label = raw_label
              /\ outcome.id = -1
         /\ raw_label \in {"quarter", "Quarter"} => outcome = MappedId(3)
         /\ raw_label = "nut" => outcome = Discarded
         /\ raw_label = "dime_old" => outcome = Unknown("dime_old")
         /\ outcome.tag = "MappedId" =>
              raw_label \in DOMAIN CLASS_MAPPING /\ outcome.id = CLASS_MAPPING[raw_label]

\* a variant of an enumerated label has been resolved to Unknown
C6_Witness ==
    /\ pc = "normalized"
    /\ raw_label = "dime_old"
    /\ outcome.tag = "Unknown"

-----------------------------------------------------------------------------
(* C7 *)

\* C7: the values of CLASS_MAPPING are exactly the ten ids 0..9; an id a label
\* resolves to is one of them.
C7_MappingOntoTaxonomy ==
    /\ Range(CLASS_MAPPING) = 0..9
    /\ outcome.tag = "MappedId" => outcome.id \in 0..9

\* a label has been resolved to the last unified id
C7_Witness ==
    /\ pc = "normalized"
    /\ outcome = MappedId(9)

-----------------------------------------------------------------------------
(* C8 *)

\* C8: DATASETS, CLASS_MAPPING and SKIP_CLASSES hold, in every state of a run,
\* the contents they were given at process start.
C8_ConfigReadOnly ==
    /\ DATASETS = DATASETS_literal
    /\ CLASS_MAPPING = CLASS_MAPPING_literal
    /\ SKIP_CLASSES = SKIP_CLASSES_literal

\* a finished run with a successful download of a dataset without a configured
\* format and a failed download
C8_Witness ==
    /\ entry = "main" /\ pc = "done"
    /\ \E k \in 1..Len(attempts) :
         attempts[k].dataset_name = "coin_counter" /\ attempts[k].exc = "none"
    /\ \E k \in 1..Len(attempts) : attempts[k].exc # "none"

-----------------------------------------------------------------------------
(* C9 *)

\* the format each registry entry leads to, as the claim lists them
ExpectedFormat ==
    ( "usd_bills" :> "yolov8" ) @@ ( "dollar_bills_v20" :> "yolov8" ) @@
    ( "front_back_usd_obb" :> "yolov8-obb" ) @@ ( "coin_counter" :> "yolov8" ) @@
    ( "us_currency_coins" :> "yolov8" )

\* the calls download_dataset(d) is to make, in order
ExpectedCalls(d) ==
    << RemoteCall("Roboflow", "KEY", << >>),
       RemoteCall("workspace", DATASETS_literal.items[d].workspace, << >>),
       RemoteCall("project", DATASETS_literal.items[d].project, << >>),
       RemoteCall("version", DATASETS_literal.items[d].version, << >>),
       RemoteCall("download", ExpectedFormat[d], output_dir \o << d >>) >>

\* C9: the remote calls of download_dataset(d) are, as far as they get, d's own
\* workspace, project and version, then a download in d's format ("yolov8" when
\* none is configured) into output_dir/d; a call that returns made all of them
\* and its directory exists; downloads of distinct ids go to distinct directories.
C9_OwnSourceAndDestination ==
    /\ \A k \in 1..Len(attempts) :
         attempts[k].dataset_name \in RegistryIds =>
           /\ Len(attempts[k].calls) \in 1..5
           /\ attempts[k].calls =
                SubSeq(ExpectedCalls(attempts[k].dataset_name), 1, Len(attempts[k].calls))
           /\ attempts[k].exc = "none" =>
                /\ Len(attempts[k].calls) = 5
                /\ (output_dir \o << attempts[k].dataset_name >>) \in fs
    /\ \A j, k \in 1..Len(attempts) :
         (/\ Len(attempts[j].calls) = 5
          /\ Len(attempts[k].calls) = 5
          /\ attempts[j].dataset_name # attempts[k].dataset_name)
           => attempts[j].calls[5].location # attempts[k].calls[5].location

\* a finished run that downloaded a dataset with a configured format and one
\* without
C9_Witness ==
    /\ entry = "main" /\ pc = "done"
    /\ \E j, k \in 1..Len(attempts) :
         /\ attempts[j].dataset_name = "front_back_usd_obb" /\ attempts[j].exc = "none"
         /\ attempts[k].dataset_name = "us_currency_coins" /\ attempts[k].exc = "none"

-----------------------------------------------------------------------------
(* C10 *)

\* C10: when --datasets is omitted or contains "all", the calls made by a
\* finished run are the registry ids, each once, in registry order, and while
\* the run is under way they are the first ids of that list.
C10_AllSelectsRegistry ==
    (entry = "main" /\ pc \in {"loop", "done"}
       /\ (~argv.given \/ InSeq("all", argv.datasets))) =>
      /\ Len(attempts) <= 5
      /\ AttemptNames = SubSeq(<< "usd_bills", "dollar_bills_v20", "front_back_usd_obb",
                                  "coin_counter", "us_currency_coins" >>, 1, Len(attempts))
      /\ pc = "done" => AttemptNames = keys(DATASETS)

\* a finished run whose request wrote one id twice around "all"
C10_Witness ==
    /\ entry = "main" /\ pc = "done"
    /\ argv.datasets = << "coin_counter", "all", "coin_counter" >>
    /\ Len(attempts) = 5

====
